---- MODULE Spec2Model ----
(***************************************************************************)
(* Model of backup.py: the backup run (module import, main and the remote  *)
(* pruning pass it performs through the Backblaze B2 API) and the          *)
(* functions of the module that main does not call in this revision        *)
(* (prune_old_backups_local, upload_to_b2, validate_b2_or_fail,           *)
(* create_backup), each applied to inputs drawn from bounded sets.         *)
(*                                                                         *)
(* File names are sequences of character codes ordered as Python orders    *)
(* strings: the code of "-backup-" is below the code of ".tar.xz", which   *)
(* is below the digits of a timestamp, which are below the letters of a    *)
(* job name.                                                               *)
(***************************************************************************)
EXTENDS Integers, Sequences, FiniteSets, TLC

VARIABLES
    entry,          \* what is executed: "main" (python backup.py) or one function
    calls,          \* earlier executions of it on the same disk and bucket
    pc,             \* position in the code
    env,            \* os.environ: JOB_NAME and the settings main reads
    exit_code,      \* the process exit code once pc = "exited" (-1 before)
    raised,         \* a directly called function ended by raising
    executed,       \* lifecycle steps main has started, in order
    failed_step,    \* the step whose exception reached main's handler
    remote,         \* objects in the bucket under the prefix
    page_cap,       \* the store's cap on one page of a listing
    auth,           \* b2_authorize's outcome: "none", "rejected", "scoped", "unscoped"
    allowed,        \* auth.get("allowed", {})
    list_buckets,   \* b2_resolve_bucket_id's response of b2_list_buckets
    bucket_id,      \* prune_old_backups_remote_b2's bucket_id ("" until resolved)
    files,          \* b2_list_files' files, then the sorted list
    next_file_name, \* b2_list_files' cursor
    to_delete,      \* prune_old_backups_remote_b2's to_delete
    di,             \* index of the next element of to_delete
    list_reqs,      \* startFileName of every b2_list_file_names request
    list_failed,    \* a b2_list_file_names request failed
    bucket_reqs,    \* number of b2_list_buckets requests
    delete_reqs,    \* (fileName, fileId) of every b2_delete_file_version request
    delete_failed,  \* the objects whose delete request failed
    remote0,        \* the bucket's content when the run began
    disk,           \* files in BACKUP_DIR
    disk0,          \* BACKUP_DIR when the operation began
    retention_count,\* prune_old_backups_local's argument
    backups,        \* prune_old_backups_local's backups
    old,            \* prune_old_backups_local's old
    li,             \* index of the next element of old
    remove_reqs,    \* the paths os.remove was called on
    remove_failed,  \* the paths whose os.remove raised
    local_path,     \* upload_to_b2's local_path
    returncode,     \* rclone's exit code (-1 before it ran)
    uploads,        \* archives copied to the remote
    source,         \* what rglob("*") finds under source_dir
    backup_name,    \* create_backup's backup_name
    tar,            \* the archive file: "none", "failed", "open", "closed"
    all_files,      \* create_backup's all_files
    fi,             \* index of the next element of all_files
    archive,        \* the arcnames of the archive's entries
    add_failed      \* the files whose tar.add raised

vars == <<entry, calls, pc, env, exit_code, raised, executed, failed_step, remote,
          page_cap, auth, allowed, list_buckets, bucket_id, files,
          next_file_name, to_delete, di, list_reqs, list_failed, bucket_reqs, delete_reqs, delete_failed,
          remote0, disk, disk0, retention_count, backups, old, li, remove_reqs,
          remove_failed, local_path, returncode, uploads, source,
          backup_name, tar, all_files, fi, archive, add_failed>>

runVars == <<env, exit_code, executed, failed_step>>
remoteVars == <<remote, page_cap, auth, allowed, list_buckets, bucket_id, files, next_file_name,
                to_delete, di, list_reqs, list_failed, bucket_reqs,
                delete_reqs, delete_failed, remote0>>
localVars == <<disk, disk0, retention_count, backups, old, li, remove_reqs,
               remove_failed>>
uploadVars == <<local_path, returncode, uploads>>
archiveVars == <<source, backup_name, tar, all_files, fi, archive, add_failed>>

----------------------------------------------------------------------------
(* Bounds *)

MaxTs == 3          \* distinct timestamps of local archive names
MaxObjects == 3     \* objects the bucket may hold under the prefix
MaxStamp == 2       \* distinct upload timestamps
MaxKeep == 2        \* largest keep-count
MaxPage == 2        \* largest page cap of the store
MaxExit == 2        \* largest exit code of the copy tool
MaxRuns == 2        \* executions in a row on the same disk and bucket
MaxFiles == 3       \* regular files under the source directory

(* "maxFileCount": 1000 in b2_list_files' payload *)
maxFileCount == 1000

----------------------------------------------------------------------------
(* Names *)

None == <<>>

Min(a, b) == IF a < b THEN a ELSE b
Max(a, b) == IF a > b THEN a ELSE b

Marker == <<1>>             \* "-backup-"
Ext == <<2>>                \* ".tar.xz"
Stamp(t) == <<10 + t>>      \* strftime("%Y%m%d-%H%M%S"), fixed width
JobA == <<21>>              \* JOB_NAME "a"
JobAB == <<21, 1, 22>>      \* JOB_NAME "a-backup-b"
Jobs == {JobA, JobAB}

(* backup_name = f"{JOB_NAME}-backup-{timestamp}.tar.xz" *)
BackupName(job, t) == job \o Marker \o Stamp(t) \o Ext

StartsWith(name, p) ==
    /\ Len(name) >= Len(p)
    /\ SubSeq(name, 1, Len(p)) = p
EndsWith(name, s) ==
    /\ Len(name) >= Len(s)
    /\ SubSeq(name, Len(name) - Len(s) + 1, Len(name)) = s

(* Python's order on strings *)
StrLess(a, b) ==
    \E k \in 1..(Len(a) + 1) :
        /\ k <= Len(b)
        /\ \A i \in 1..(k - 1) : a[i] = b[i]
        /\ \/ k = Len(a) + 1
           \/ a[k] < b[k]

(* sorted(names): ascending, by repeated selection of the least name *)
RECURSIVE sorted(_)
sorted(S) ==
    IF S = {} THEN <<>>
    ELSE LET m == CHOOSE x \in S : \A y \in S \ {x} : StrLess(x, y)
         IN  <<m>> \o sorted(S \ {m})

(* Python slices s[:stop] and s[start:] *)
SliceTo(s, stop) ==
    LET e == IF stop < 0 THEN Max(Len(s) + stop, 0) ELSE Min(stop, Len(s))
    IN  SubSeq(s, 1, e)
SliceFrom(s, start) ==
    LET b == IF start < 0 THEN Max(Len(s) + start, 0) ELSE Min(start, Len(s))
    IN  SubSeq(s, b + 1, Len(s))

Range(s) == {s[i] : i \in 1..Len(s)}

(* The job a file name was made for by main's backup_name *)
Owner(name) == CHOOSE j \in Jobs : \E t \in 1..9 : name = BackupName(j, t)

----------------------------------------------------------------------------
(* The object store (Backblaze B2), as the client's requests see it *)

(* The i-th object the bucket may hold: an archive uploaded by one of the   *)
(* jobs sharing the bucket and prefix, with a store-assigned file id.       *)
RemoteObject(i, ts) ==
    [fileName |-> BackupName(IF i % 2 = 1 THEN JobA ELSE JobAB, i),
     fileId |-> i,
     uploadTimestamp |-> ts]

Buckets ==
    UNION {{{RemoteObject(i, f[i]) : i \in I} : f \in [I -> 1..MaxStamp]}
           : I \in SUBSET (1..MaxObjects)}

(* The objects in name order, as b2_list_file_names returns them *)
RECURSIVE ByName(_)
ByName(objs) ==
    IF objs = {} THEN <<>>
    ELSE LET m == CHOOSE x \in objs :
                      \A y \in objs \ {x} : StrLess(x.fileName, y.fileName)
         IN  <<m>> \o ByName(objs \ {m})

(* Response of b2_list_file_names to startFileName = start (None when the  *)
(* payload has none) and maxFileCount = count, the store capping a page at  *)
(* cap: the objects from start on, in name order, and the name the next    *)
(* page starts with.                                                        *)
StoreListFileNames(objs, start, count, cap) ==
    LET from == {o \in objs : start = None \/ ~StrLess(o.fileName, start)}
        all == ByName(from)
        n == Min(Min(count, cap), Len(all))
    IN  [files |-> SubSeq(all, 1, n),
         nextFileName |-> IF Len(all) > n THEN all[n + 1].fileName ELSE None]

(* What data.get("files", []) and data.get("nextFileName") read in the     *)
(* body of an error response, which has neither key                        *)
ErrorBody == [files |-> <<>>, nextFileName |-> None]

(* b2_delete_file_version: the version with that name and id is removed *)
StoreDeleteFileVersion(objs, name, id) ==
    {o \in objs : ~(o.fileName = name /\ o.fileId = id)}

----------------------------------------------------------------------------
(* b2_authorize and b2_resolve_bucket_id *)

(* B2_BUCKET, and another bucket of the account *)
BucketName == "bucket"
OtherBucket == "other"

(* The id the store gave a bucket *)
BucketIdOf(name) == IF name = BucketName THEN "id-bucket" ELSE "id-other"

(* "allowed" of an authorization: empty (a key with no bucket scope), or   *)
(* naming a bucket, with its id or without                                 *)
EmptyScope == [bucketName |-> "", bucketId |-> ""]
Scopes ==
    {EmptyScope,
     [bucketName |-> BucketName, bucketId |-> BucketIdOf(BucketName)],
     [bucketName |-> BucketName, bucketId |-> ""],
     [bucketName |-> OtherBucket, bucketId |-> BucketIdOf(OtherBucket)]}

(* Responses of b2_authorize_account *)
AuthResponses ==
    {[status |-> "rejected", allowed |-> EmptyScope]}
        \cup [status : {"ok"}, allowed : Scopes]

(* The scope's id taken whatever bucket the scope names *)
ScopeHasAnyBucket(a) == a.bucketId # ""

(* "if allowed: if allowed.get("bucketName") == bucket_name and            *)
(* allowed.get("bucketId")"                                                *)
ScopeHasBucket(a) == a.bucketName = BucketName /\ a.bucketId # ""

Bucket(name) == [bucketName |-> name, bucketId |-> BucketIdOf(name)]

(* Responses of b2_list_buckets: an error, or data["buckets"] *)
NoResponse == [status |-> "none", buckets |-> <<>>]
BucketResponses ==
    {[status |-> "error", buckets |-> <<>>]}
        \cup [status : {"ok"},
              buckets : {<<>>, <<Bucket(OtherBucket)>>, <<Bucket(BucketName)>>,
                         <<Bucket(OtherBucket), Bucket(BucketName)>>}]

(* "for b in buckets: if b.get("bucketName") == bucket_name: return        *)
(* b.get("bucketId")"; "" when the loop ends without a return              *)
RECURSIVE FirstBucketId(_, _)
FirstBucketId(bs, name) ==
    IF bs = <<>> THEN ""
    ELSE IF Head(bs).bucketName = name THEN Head(bs).bucketId
    ELSE FirstBucketId(Tail(bs), name)

----------------------------------------------------------------------------
(* b2_list_files *)

(* The cursor left out of the payload *)
StartFileNameLeftOut(next) == None

(* payload["startFileName"] is set only "if next_file_name" *)
StartFileName(next) == IF next # None THEN next ELSE None

(* The loop left after the first page, whatever the cursor *)
ListDoneAfterFirstPage(next) == TRUE

(* "if not next_file_name: break" *)
ListDone(next) == next = None

(* The status of a page response not looked at *)
ListStatusIgnored(ok) == FALSE

(* resp.raise_for_status() of a page request *)
ListRaises(ok) == ~ok

----------------------------------------------------------------------------
(* prune_old_backups_remote_b2 *)

(* files.sort(key=uploadTimestamp, reverse=True): a stable sort, newest    *)
(* first, objects of equal timestamp staying in the order of the list      *)
RECURSIVE InsertDesc(_, _)
InsertDesc(s, f) ==
    IF s = <<>> THEN <<f>>
    ELSE IF Head(s).uploadTimestamp >= f.uploadTimestamp
         THEN <<Head(s)>> \o InsertDesc(Tail(s), f)
         ELSE <<f>> \o s

(* A sort that puts objects of equal timestamp in reverse list order, as   *)
(* an ascending sort followed by reverse() does                            *)
RECURSIVE SortThenReverse(_)
SortThenReverse(s) ==
    IF s = <<>> THEN <<>>
    ELSE InsertDesc(SortThenReverse(Tail(s)), Head(s))

RECURSIVE SortNewestFirst(_)
SortNewestFirst(s) ==
    IF s = <<>> THEN <<>>
    ELSE InsertDesc(SortNewestFirst(SubSeq(s, 1, Len(s) - 1)), s[Len(s)])

(* A slice that starts one element early *)
ToDeleteOneEarly(fs, keep) ==
    IF Len(fs) >= keep THEN SliceFrom(fs, keep - 1) ELSE <<>>

(* to_delete = files[keep:] if len(files) > keep else [] *)
ToDelete(fs, keep) == IF Len(fs) > keep THEN SliceFrom(fs, keep) ELSE <<>>

----------------------------------------------------------------------------
(* prune_old_backups_local *)

(* pattern = BACKUP_DIR/{JOB_NAME}-backup-*.tar.xz; glob.glob(pattern):    *)
(* the names that start with the text before "*" and, after it, end with   *)
(* the text behind it                                                       *)
Glob(dir, job) ==
    {n \in dir : /\ StartsWith(n, job \o Marker)
                 /\ EndsWith(n, Ext)
                 /\ Len(n) >= Len(job \o Marker) + Len(Ext)}

(* The slice taken from the other end: everything after the first n *)
OldAfterFirst(bs, n) == IF Len(bs) > n THEN SliceFrom(bs, n) ELSE <<>>

(* old = backups[:-retention_count] if len(backups) > retention_count else [] *)
Old(bs, n) == IF Len(bs) > n THEN SliceTo(bs, 0 - n) ELSE <<>>

(* "except Exception" around os.remove and around b2_delete_file *)
RemoveErrorCaught == TRUE
DeleteErrorPropagates == FALSE
DeleteErrorCaught == TRUE

----------------------------------------------------------------------------
(* create_backup *)

(* SOURCE_DIR, and the directory and the regular files a source tree may   *)
(* hold: file i lies in the root when i is odd, in the directory when even *)
SourceDir == <<0>>
SubDir == <<50>>
FilePath(i) == IF i % 2 = 1 THEN <<60 + i>> ELSE SubDir \o <<60 + i>>
DirEntry == [path |-> SourceDir \o SubDir, rel |-> SubDir, kind |-> "dir"]
FileEntry(i) ==
    [path |-> SourceDir \o FilePath(i), rel |-> FilePath(i), kind |-> "file"]

(* What pathlib.Path(source_dir).rglob("*") yields: the directory and any  *)
(* set of the files                                                        *)
SourceTrees == {{DirEntry} \cup {FileEntry(i) : i \in I} : I \in SUBSET (1..MaxFiles)}

(* [p for p in ... if p.is_file()], in the order of the walk *)
RECURSIVE Walk(_)
Walk(S) ==
    IF S = {} THEN <<>>
    ELSE LET e == CHOOSE x \in S : \A y \in S \ {x} : StrLess(x.path, y.path)
         IN  (IF e.kind = "file" THEN <<e>> ELSE <<>>) \o Walk(S \ {e})

(* The whole path used as the name of the entry *)
WholePath(path, dir) == path

(* arcname = f.relative_to(source_dir) *)
RelativeTo(path, dir) == SubSeq(path, Len(dir) + 1, Len(path))

(* "except Exception" around tar.add *)
AddErrorPropagates == FALSE
AddErrorCaught == TRUE

----------------------------------------------------------------------------
(* Environment of a run *)

(* The check of the required settings without REMOTE_PATH *)
RequiredWithoutPath == {"B2_BUCKET", "B2_ACCOUNT_ID", "B2_ACCOUNT_KEY"}

Required == {"B2_BUCKET", "REMOTE_PATH", "B2_ACCOUNT_ID", "B2_ACCOUNT_KEY"}

(* The settings read from os.environ that the program cannot do without *)
Settings ==
    {"JOB_NAME", "B2_BUCKET", "REMOTE_PATH", "B2_ACCOUNT_ID", "B2_ACCOUNT_KEY"}

(* os.environ: the job name, the variables that are unset or empty (none,  *)
(* one of them, or all), and REMOTE_RETENTION                               *)
Environments ==
    [JOB_NAME : Jobs,
     unset : {{}} \cup {{v} : v \in Settings} \cup {Settings},
     REMOTE_RETENTION : 0..MaxKeep]

LocalNames == {BackupName(j, t) : j \in Jobs, t \in 1..MaxTs}

NoRun ==
    /\ calls = 0
    /\ exit_code = -1
    /\ raised = FALSE
    /\ executed = <<>>
    /\ failed_step = "none"
NoRemote ==
    /\ auth = "none"
    /\ allowed = EmptyScope
    /\ list_buckets = NoResponse
    /\ bucket_id = ""
    /\ files = <<>>
    /\ next_file_name = None
    /\ to_delete = <<>>
    /\ di = 1
    /\ list_reqs = <<>>
    /\ list_failed = FALSE
    /\ bucket_reqs = 0
    /\ delete_reqs = <<>>
    /\ delete_failed = {}
NoLocal ==
    /\ backups = <<>>
    /\ old = <<>>
    /\ li = 1
    /\ remove_reqs = <<>>
    /\ remove_failed = {}
NoArchive ==
    /\ source = {}
    /\ backup_name = None
    /\ tar = "none"
    /\ all_files = <<>>
    /\ fi = 1
    /\ archive = {}
    /\ add_failed = {}
NoUpload ==
    /\ local_path = None
    /\ returncode = -1
    /\ uploads = {}

(* python backup.py *)
InitMain ==
    /\ entry = "main"
    /\ pc = "import"
    /\ env \in Environments
    /\ remote \in Buckets
    /\ remote0 = remote
    /\ page_cap \in 1..MaxPage
    /\ disk = {}
    /\ disk0 = {}
    /\ retention_count = 0
    /\ NoRun /\ NoRemote /\ NoLocal /\ NoUpload /\ NoArchive

(* prune_old_backups_local(retention_count) on a BACKUP_DIR *)
InitPruneLocal ==
    /\ entry = "prune_old_backups_local"
    /\ pc = "glob"
    /\ env \in {e \in Environments : e.unset = {} /\ e.REMOTE_RETENTION = 0}
    /\ disk \in SUBSET LocalNames
    /\ disk0 = disk
    /\ retention_count \in 0..MaxKeep
    /\ remote = {}
    /\ remote0 = {}
    /\ page_cap = 1
    /\ NoRun /\ NoRemote /\ NoLocal /\ NoUpload /\ NoArchive

(* upload_to_b2(local_path, remote_path) of an archive in BACKUP_DIR *)
InitUpload ==
    /\ entry = "upload_to_b2"
    /\ pc = "upload"
    /\ env \in {e \in Environments : e.unset = {} /\ e.REMOTE_RETENTION = 0}
    /\ disk \in SUBSET LocalNames
    /\ disk0 = disk
    /\ local_path \in {n \in disk : Owner(n) = env.JOB_NAME}
    /\ returncode = -1
    /\ uploads = {}
    /\ retention_count = 0
    /\ remote = {}
    /\ remote0 = {}
    /\ page_cap = 1
    /\ NoRun /\ NoRemote /\ NoLocal /\ NoArchive

(* validate_b2_or_fail(bucket_name, account_id, account_key) *)
InitValidate ==
    /\ entry = "validate_b2_or_fail"
    /\ pc = "authorize"
    /\ env \in {e \in Environments : e.unset = {} /\ e.REMOTE_RETENTION = 0}
    /\ remote = {}
    /\ remote0 = {}
    /\ page_cap = 1
    /\ disk = {}
    /\ disk0 = {}
    /\ retention_count = 0
    /\ NoRun /\ NoRemote /\ NoLocal /\ NoUpload /\ NoArchive

(* create_backup(SOURCE_DIR, backup_name) on a source tree *)
InitCreate ==
    /\ entry = "create_backup"
    /\ pc = "scan"
    /\ env \in {e \in Environments : e.unset = {} /\ e.REMOTE_RETENTION = 0}
    /\ source \in SourceTrees
    /\ backup_name \in {BackupName(env.JOB_NAME, t) : t \in 1..MaxTs}
    /\ tar = "none"
    /\ all_files = <<>>
    /\ fi = 1
    /\ archive = {}
    /\ add_failed = {}
    /\ disk = {}
    /\ disk0 = {}
    /\ retention_count = 0
    /\ remote = {}
    /\ remote0 = {}
    /\ page_cap = 1
    /\ NoRun /\ NoRemote /\ NoLocal /\ NoUpload

Init ==
    InitMain \/ InitPruneLocal \/ InitUpload \/ InitValidate \/ InitCreate

----------------------------------------------------------------------------
(* main *)

(* A handler that logs the error and lets the process end normally *)
MainExceptLogsOnly(step) ==
    /\ pc' = "exited"
    /\ exit_code' = 0
    /\ failed_step' = step

(* "except Exception as e: ... sys.exit(1)" *)
MainExcept(step) ==
    /\ pc' = "exited"
    /\ exit_code' = 1
    /\ failed_step' = step

(* sys.exit(1) of the configuration checks *)
ExitMissing ==
    /\ pc' = "exited"
    /\ exit_code' = 1
    /\ failed_step' = failed_step

(* Module level: JOB_NAME = os.environ.get("JOB_NAME"); exit if missing *)
Import ==
    /\ entry = "main"
    /\ pc = "import"
    /\ IF "JOB_NAME" \in env.unset
       THEN ExitMissing
       ELSE /\ pc' = "main"
            /\ UNCHANGED <<exit_code, failed_step>>
    /\ UNCHANGED <<entry, calls, env, raised, executed, remoteVars, localVars, uploadVars, archiveVars>>

(* main up to the first call of the try block: the required settings are   *)
(* checked, then prune_old_backups_remote_b2 is called (validation,        *)
(* archive creation and upload are commented out)                          *)
MainStart ==
    /\ entry = "main"
    /\ pc = "main"
    /\ IF Required \cap env.unset # {}
       THEN /\ ExitMissing
            /\ UNCHANGED executed
       ELSE /\ pc' = "authorize"
            /\ executed' = Append(executed, "PruningRemote")
            /\ UNCHANGED <<exit_code, failed_step>>
    /\ UNCHANGED <<entry, calls, env, raised, remoteVars, localVars, uploadVars, archiveVars>>

----------------------------------------------------------------------------
(* prune_old_backups_remote_b2, called by main *)

(* The status of the authorization response not looked at *)
AuthorizeStatusIgnored(r) == FALSE

(* b2_authorize: resp.raise_for_status() *)
AuthorizeRaises(r) == r = "rejected"

(* The process ends in main's handler; validate_b2_or_fail, called         *)
(* directly, logs the error and raises it again                            *)
ValidateExcept(step) ==
    /\ pc' = "returned"
    /\ raised' = TRUE
    /\ failed_step' = step
    /\ UNCHANGED exit_code

Raise(step) ==
    IF entry = "main"
    THEN MainExcept(step) /\ UNCHANGED raised
    ELSE ValidateExcept(step)

(* After the bucket is resolved prune_old_backups_remote_b2 lists the      *)
(* files; validate_b2_or_fail logs "validated" and returns                 *)
AfterResolve == IF entry = "main" THEN "list" ELSE "returned"

(* auth = b2_authorize(account_id, account_key): the store rejects the     *)
(* credentials, or answers with the scope ("allowed") of the key           *)
Authorize ==
    /\ entry \in {"main", "validate_b2_or_fail"}
    /\ pc = "authorize"
    /\ \E resp \in AuthResponses :
          LET r == IF resp.status = "rejected" THEN "rejected"
                   ELSE IF ScopeHasBucket(resp.allowed) THEN "scoped"
                   ELSE "unscoped"
          IN  /\ auth' = r
              /\ IF AuthorizeRaises(r)
                 THEN /\ Raise("authorize")
                      /\ UNCHANGED allowed
                 ELSE /\ allowed' = resp.allowed
                      /\ pc' = "resolve"
                      /\ UNCHANGED <<exit_code, failed_step, raised>>
    /\ UNCHANGED <<entry, calls, env, executed, remote, page_cap, bucket_id,
                   list_buckets, files, next_file_name, to_delete, di,
                   list_reqs, list_failed, bucket_reqs, delete_reqs,
                   delete_failed, remote0, localVars, uploadVars, archiveVars>>

(* b2_resolve_bucket_id up to the response of b2_list_buckets: the id of   *)
(* the scope is returned when the scope names the bucket; otherwise the    *)
(* buckets are requested, and the request fails or returns a list          *)
ResolveBucket ==
    /\ entry \in {"main", "validate_b2_or_fail"}
    /\ pc = "resolve"
    /\ IF ScopeHasBucket(allowed)
       THEN /\ bucket_id' = allowed.bucketId
            /\ pc' = AfterResolve
            /\ UNCHANGED <<bucket_reqs, list_buckets, exit_code, failed_step,
                           raised>>
       ELSE /\ bucket_reqs' = bucket_reqs + 1
            /\ UNCHANGED bucket_id
            /\ \E resp \in BucketResponses :
                  /\ list_buckets' = resp
                  /\ IF resp.status = "error"
                     THEN Raise("resolve")
                     ELSE /\ pc' = "find"
                          /\ UNCHANGED <<exit_code, failed_step, raised>>
    /\ UNCHANGED <<entry, calls, env, executed, remote, page_cap, auth,
                   allowed, files, next_file_name, to_delete, di, list_reqs,
                   list_failed, delete_reqs, delete_failed, remote0,
                   localVars, uploadVars, archiveVars>>

(* The end of b2_resolve_bucket_id: "for b in buckets" returns the id of   *)
(* the first bucket with the name, or RuntimeError("Bucket not found") is  *)
(* raised                                                                  *)
FindBucket ==
    /\ entry \in {"main", "validate_b2_or_fail"}
    /\ pc = "find"
    /\ LET id == FirstBucketId(list_buckets.buckets, BucketName)
       IN  IF id # ""
           THEN /\ bucket_id' = id
                /\ list_buckets' = NoResponse
                /\ pc' = AfterResolve
                /\ UNCHANGED <<exit_code, failed_step, raised>>
           ELSE /\ Raise("resolve")
                /\ UNCHANGED <<bucket_id, list_buckets>>
    /\ UNCHANGED <<entry, calls, env, executed, remote, page_cap, auth,
                   allowed, files, next_file_name, to_delete, di, list_reqs,
                   list_failed, bucket_reqs, delete_reqs, delete_failed,
                   remote0, localVars, uploadVars, archiveVars>>

(* One pass of b2_list_files' loop: a b2_list_file_names request from the  *)
(* cursor, which fails or returns a page                                   *)
ListPage ==
    /\ entry = "main"
    /\ pc = "list"
    /\ list_reqs' = Append(list_reqs, StartFileName(next_file_name))
    /\ \E ok \in BOOLEAN :
          /\ list_failed' = (list_failed \/ ~ok)
          /\ IF ListRaises(ok)
             THEN /\ MainExcept("list")
                  /\ UNCHANGED <<files, next_file_name>>
             ELSE LET data == IF ok
                              THEN StoreListFileNames(remote,
                                       StartFileName(next_file_name),
                                       maxFileCount, page_cap)
                              ELSE ErrorBody
                  IN  /\ files' = files \o data.files
                      /\ next_file_name' = data.nextFileName
                      /\ pc' = IF ListDone(data.nextFileName)
                                THEN "sort" ELSE "list"
                      /\ UNCHANGED <<exit_code, failed_step>>
    /\ UNCHANGED <<entry, calls, env, raised, executed, remote, page_cap, auth,
                   allowed, list_buckets, bucket_id, to_delete, di, bucket_reqs, delete_reqs,
                   delete_failed, remote0, localVars, uploadVars, archiveVars>>

(* files.sort(...); to_delete = files[keep:] if len(files) > keep else [] *)
SortFiles ==
    /\ entry = "main"
    /\ pc = "sort"
    /\ files' = SortNewestFirst(files)
    /\ to_delete' = ToDelete(files', env.REMOTE_RETENTION)
    /\ di' = 1
    /\ pc' = "delete"
    /\ UNCHANGED <<entry, calls, env, raised, runVars, remote, page_cap, auth,
                   allowed, list_buckets,
                   bucket_id, next_file_name, list_reqs, list_failed,
                   bucket_reqs, delete_reqs, delete_failed, remote0,
                   localVars, uploadVars, archiveVars>>

(* One pass of "for f in to_delete": b2_delete_file, whose failure is      *)
(* logged; after the last one the pruner returns and main ends with        *)
(* "completed successfully"                                                *)
DeleteRemote ==
    /\ entry = "main"
    /\ pc = "delete"
    /\ IF di > Len(to_delete)
       THEN /\ pc' = "exited"
            /\ exit_code' = 0
            /\ UNCHANGED <<failed_step, remote, di, delete_reqs, delete_failed>>
       ELSE LET f == to_delete[di]
            IN  /\ delete_reqs' = Append(delete_reqs, <<f.fileName, f.fileId>>)
                /\ \E ok \in BOOLEAN :
                      IF ok
                      THEN /\ remote' = StoreDeleteFileVersion(remote,
                                             f.fileName, f.fileId)
                           /\ di' = di + 1
                           /\ UNCHANGED <<pc, exit_code, failed_step, delete_failed>>
                      ELSE /\ delete_failed' = delete_failed \cup {f}
                           /\ UNCHANGED remote
                           /\ IF DeleteErrorCaught
                              THEN /\ di' = di + 1
                                   /\ UNCHANGED <<pc, exit_code, failed_step>>
                              ELSE /\ MainExcept("delete")
                                   /\ UNCHANGED di
    /\ UNCHANGED <<entry, calls, env, raised, executed, page_cap, auth, bucket_id,
                   allowed, list_buckets,
                   files, next_file_name, to_delete, list_reqs, list_failed,
                   bucket_reqs, remote0, localVars, uploadVars, archiveVars>>

----------------------------------------------------------------------------
(* prune_old_backups_local, called directly *)

(* backups = sorted(glob.glob(pattern)); old = backups[:-retention_count]  *)
(* if len(backups) > retention_count else []                               *)
GlobLocal ==
    /\ entry = "prune_old_backups_local"
    /\ pc = "glob"
    /\ backups' = sorted(Glob(disk, env.JOB_NAME))
    /\ old' = Old(backups', retention_count)
    /\ li' = 1
    /\ pc' = "remove"
    /\ UNCHANGED <<entry, calls, env, raised, exit_code, executed, failed_step,
                   remoteVars, disk, disk0, retention_count, remove_reqs,
                   remove_failed, uploadVars, archiveVars>>

(* One pass of "for path in old": os.remove(path), whose failure is        *)
(* logged; after the last one the function returns                         *)
RemoveLocal ==
    /\ entry = "prune_old_backups_local"
    /\ pc = "remove"
    /\ IF li > Len(old)
       THEN /\ pc' = "returned"
            /\ UNCHANGED <<raised, disk, li, remove_reqs, remove_failed>>
       ELSE LET path == old[li]
            IN  /\ remove_reqs' = Append(remove_reqs, path)
                /\ \E ok \in BOOLEAN :
                      IF ok
                      THEN /\ disk' = disk \ {path}
                           /\ li' = li + 1
                           /\ UNCHANGED <<pc, raised, remove_failed>>
                      ELSE /\ remove_failed' = remove_failed \cup {path}
                           /\ UNCHANGED disk
                           /\ IF RemoveErrorCaught
                              THEN /\ li' = li + 1
                                   /\ UNCHANGED <<pc, raised>>
                              ELSE /\ pc' = "returned"
                                   /\ raised' = TRUE
                                   /\ UNCHANGED li
    /\ UNCHANGED <<entry, calls, env, exit_code, executed, failed_step, remoteVars,
                   disk0, retention_count, backups, old, uploadVars, archiveVars>>

----------------------------------------------------------------------------
(* upload_to_b2, called directly *)

(* Only exit code 1 taken as a failure *)
RunCommandRaisesOnOne(code) == code = 1

(* run_command: "if result.returncode != 0: raise RuntimeError" *)
RunCommandRaises(code) == code # 0

(* run_command(rclone copy local_path remote_path ...): rclone ends with   *)
(* an exit code; on 0 the archive is at the remote                         *)
Upload ==
    /\ entry = "upload_to_b2"
    /\ pc = "upload"
    /\ \E code \in 0..MaxExit :
          /\ returncode' = code
          /\ raised' = RunCommandRaises(code)
          /\ uploads' = IF code = 0 THEN uploads \cup {local_path} ELSE uploads
    /\ pc' = "returned"
    /\ UNCHANGED <<entry, calls, env, exit_code, executed, failed_step, remoteVars,
                   localVars, local_path, archiveVars>>

----------------------------------------------------------------------------
(* create_backup, called directly *)

(* all_files = [...]; tarfile.open(backup_path, mode="w:xz"), which        *)
(* creates the archive file or raises                                      *)
ScanAndOpen ==
    /\ entry = "create_backup"
    /\ pc = "scan"
    /\ all_files' = Walk(source)
    /\ \E ok \in BOOLEAN :
          IF ok
          THEN /\ tar' = "open"
               /\ disk' = disk \cup {backup_name}
               /\ pc' = "add"
               /\ UNCHANGED raised
          ELSE /\ tar' = "failed"
               /\ raised' = TRUE
               /\ pc' = "returned"
               /\ UNCHANGED disk
    /\ UNCHANGED <<entry, calls, env, exit_code, executed, failed_step,
                   remoteVars, disk0, retention_count, backups, old, li,
                   remove_reqs, remove_failed, uploadVars, source,
                   backup_name, fi, archive, add_failed>>

(* One pass of "for f in all_files": tar.add(f, arcname), whose failure is *)
(* logged; after the last one the archive is closed and its path returned  *)
AddFile ==
    /\ entry = "create_backup"
    /\ pc = "add"
    /\ IF fi > Len(all_files)
       THEN /\ tar' = "closed"
            /\ pc' = "returned"
            /\ UNCHANGED <<raised, fi, archive, add_failed>>
       ELSE LET f == all_files[fi]
            IN  \E ok \in BOOLEAN :
                  IF ok
                  THEN /\ archive' = archive \cup {RelativeTo(f.path, SourceDir)}
                       /\ fi' = fi + 1
                       /\ UNCHANGED <<pc, raised, tar, add_failed>>
                  ELSE /\ add_failed' = add_failed \cup {f}
                       /\ UNCHANGED archive
                       /\ IF AddErrorCaught
                          THEN /\ fi' = fi + 1
                               /\ UNCHANGED <<pc, raised, tar>>
                          ELSE /\ tar' = "closed"
                               /\ raised' = TRUE
                               /\ pc' = "returned"
                               /\ UNCHANGED fi
    /\ UNCHANGED <<entry, calls, env, exit_code, executed, failed_step,
                   remoteVars, localVars, uploadVars, source, backup_name,
                   all_files>>

----------------------------------------------------------------------------
(* Repeated execution *)

(* The scheduler starts the process again, with the same environment, on   *)
(* the bucket left by a run that succeeded with every deletion done        *)
RunAgain ==
    /\ entry = "main"
    /\ pc = "exited"
    /\ exit_code = 0
    /\ delete_failed = {}
    /\ calls + 1 < MaxRuns
    /\ calls' = calls + 1
    /\ pc' = "import"
    /\ exit_code' = -1
    /\ executed' = <<>>
    /\ auth' = "none"
    /\ allowed' = EmptyScope
    /\ bucket_id' = ""
    /\ files' = <<>>
    /\ next_file_name' = None
    /\ to_delete' = <<>>
    /\ di' = 1
    /\ list_reqs' = <<>>
    /\ bucket_reqs' = 0
    /\ delete_reqs' = <<>>
    /\ remote0' = remote
    /\ UNCHANGED <<entry, env, raised, failed_step, remote, page_cap,
                   list_buckets, list_failed, delete_failed, localVars,
                   uploadVars, archiveVars>>

(* prune_old_backups_local called again, with the same retention_count, on *)
(* the directory left by a call in which every os.remove succeeded         *)
PruneLocalAgain ==
    /\ entry = "prune_old_backups_local"
    /\ pc = "returned"
    /\ ~raised
    /\ remove_failed = {}
    /\ calls + 1 < MaxRuns
    /\ calls' = calls + 1
    /\ pc' = "glob"
    /\ disk0' = disk
    /\ backups' = <<>>
    /\ old' = <<>>
    /\ li' = 1
    /\ remove_reqs' = <<>>
    /\ UNCHANGED <<entry, env, raised, exit_code, executed, failed_step,
                   remoteVars, disk, retention_count, remove_failed,
                   uploadVars, archiveVars>>

----------------------------------------------------------------------------

Next ==
    \/ Import
    \/ MainStart
    \/ Authorize
    \/ ResolveBucket
    \/ FindBucket
    \/ ListPage
    \/ SortFiles
    \/ DeleteRemote
    \/ GlobLocal
    \/ RemoveLocal
    \/ Upload
    \/ ScanAndOpen
    \/ AddFile
    \/ RunAgain
    \/ PruneLocalAgain

Spec == Init /\ [][Next]_vars

(* The process is single-threaded and keeps running: a loop of             *)
(* b2_list_files that can make its next request makes it                   *)
FairSpec == Spec /\ WF_vars(ListPage)

----------------------------------------------------------------------------
(* Properties *)

LocalReturned == entry = "prune_old_backups_local" /\ pc = "returned"
RunSucceeded == entry = "main" /\ pc = "exited" /\ exit_code = 0
RunFailed == entry = "main" /\ pc = "exited" /\ exit_code # 0

(* The min(n, M) last of a set of names in name order *)
NewestNames(S, n) == {x \in S : Cardinality({y \in S : StrLess(x, y)}) < n}

(* o precedes p in the listing of the bucket (name order) *)
ListedBefore(o, p) == StrLess(o.fileName, p.fileName)

(* The min(n, M) newest objects by upload timestamp, objects of equal      *)
(* timestamp taken in listing order                                        *)
NewestObjects(S, n) ==
    {o \in S :
        Cardinality({p \in S :
            \/ p.uploadTimestamp > o.uploadTimestamp
            \/ /\ p.uploadTimestamp = o.uploadTimestamp
               /\ ListedBefore(p, o)}) < n}

(* C1: after prune_old_backups_local(N) in which no os.remove failed, for  *)
(* every N >= 0 (N = 0 included) exactly min(N, M) of the M archives that  *)
(* matched the job's pattern remain, the last min(N, M) in name order, and *)
(* no error is raised.                                                     *)
C1_LocalPruneKeepsNewest ==
    (LocalReturned /\ remove_failed = {}) =>
        LET matched == Glob(disk0, env.JOB_NAME)
        IN  /\ ~raised
            /\ Glob(disk, env.JOB_NAME) = NewestNames(matched, retention_count)
            /\ Cardinality(Glob(disk, env.JOB_NAME))
                   = Min(retention_count, Cardinality(matched))

(* C2: after a remote pruning pass with keep-count N in which no delete    *)
(* request failed, exactly min(N, M) of the M listed objects remain: the   *)
(* newest by upload timestamp, objects of equal timestamp chosen in        *)
(* listing order.                                                          *)
C2_RemotePruneKeepsNewest ==
    (RunSucceeded /\ delete_failed = {}) =>
        /\ remote = NewestObjects(remote0, env.REMOTE_RETENTION)
        /\ Cardinality(remote)
               = Min(env.REMOTE_RETENTION, Cardinality(remote0))

(* A pass that kept one and deleted another of two objects with the same   *)
(* upload timestamp *)
C2_Witness ==
    /\ RunSucceeded
    /\ delete_failed = {}
    /\ \E o \in remote, p \in remote0 \ remote :
          o.uploadTimestamp = p.uploadTimestamp

(* C3: a run that reports success has executed Validating, Archiving,      *)
(* Uploading, PruningRemote and PruningLocal, each once, in that order.    *)
C3_FiveStepsInOrder ==
    RunSucceeded =>
        executed = <<"Validating", "Archiving", "Uploading",
                     "PruningRemote", "PruningLocal">>

(* A fatal failure of a step of the run: the authorization is rejected,    *)
(* the bucket is not resolved, or a page request of the listing fails      *)
FatalFailure ==
    \/ auth = "rejected"
    \/ bucket_reqs > 0 /\ bucket_id = "" /\ pc \notin {"resolve", "find"}
    \/ list_failed

(* C4: a fatal failure of a step ends the run at once with a non-zero exit *)
(* code: from then on no step starts and no request is issued again; exit  *)
(* code 0 is reported only when no step had a fatal failure.               *)
C4_FatalFailureEndsRun ==
    /\ [](entry = "main" =>
            /\ FatalFailure => (RunFailed /\ failed_step # "none")
            /\ failed_step # "none" => RunFailed
            /\ RunSucceeded => ~FatalFailure)
    /\ [][(entry = "main" /\ FatalFailure) =>
            UNCHANGED <<executed, auth, list_reqs, bucket_reqs, delete_reqs,
                        remote, disk, uploads>>]_vars

(* A run ended by the failure of a page request after an earlier page *)
C4_Witness ==
    /\ RunFailed
    /\ failed_step = "list"
    /\ Len(list_reqs) >= 2

(* C5: when the authorization is rejected the run exits with a non-zero    *)
(* code, with no archive, no upload and no deletion, local or remote; no   *)
(* delete request is issued before an authorization has succeeded.         *)
C5_AuthFailureBeforeDestruction ==
    entry = "main" =>
        /\ auth = "rejected" =>
              /\ RunFailed
              /\ remote = remote0 /\ delete_reqs = <<>> /\ list_reqs = <<>>
              /\ disk = disk0 /\ remove_reqs = <<>>
              /\ uploads = {}
        /\ delete_reqs # <<>> => auth \in {"scoped", "unscoped"}

(* A rejected authorization on a bucket holding more than the keep-count *)
C5_Witness ==
    /\ RunFailed
    /\ auth = "rejected"
    /\ Cardinality(remote0) > env.REMOTE_RETENTION

(* C6: a job's pruners delete only that job's own archives and objects.    *)
C6_JobIsolation ==
    /\ \A i \in 1..Len(delete_reqs) : Owner(delete_reqs[i][1]) = env.JOB_NAME
    /\ \A i \in 1..Len(remove_reqs) : Owner(remove_reqs[i]) = env.JOB_NAME

(* C7: b2_list_files returns every object of the bucket exactly once,      *)
(* whatever the page cap is relative to the number of objects.             *)
C7_ListingComplete ==
    (entry = "main" /\ pc = "sort") =>
        /\ Range(files) = remote
        /\ Len(files) = Cardinality(remote)

(* A listing of several pages whose object count is a multiple of the cap *)
C7_Witness ==
    /\ entry = "main" /\ pc = "sort"
    /\ Len(list_reqs) >= 2
    /\ Cardinality(remote) = Len(list_reqs) * page_cap

DeleteRequest(f) == <<f.fileName, f.fileId>>

(* C8: in both pruners a failed deletion does not end the pass: every      *)
(* item to delete gets its delete attempt, every item whose deletion did   *)
(* not fail is gone, the pruner returns normally and the run does not fail *)
(* because of it.                                                          *)
C8_DeleteFailureRecovered ==
    /\ (entry = "main" /\ delete_failed # {}) =>
          /\ pc \in {"delete", "exited"}
          /\ failed_step = "none"
          /\ pc = "exited" => exit_code = 0
    /\ RunSucceeded =>
          /\ delete_reqs = [i \in 1..Len(to_delete) |-> DeleteRequest(to_delete[i])]
          /\ remote = remote0 \ (Range(to_delete) \ delete_failed)
    /\ (entry = "prune_old_backups_local" /\ remove_failed # {}) =>
          /\ pc \in {"remove", "returned"}
          /\ ~raised
    /\ LocalReturned =>
          /\ ~raised
          /\ remove_reqs = old
          /\ disk = disk0 \ (Range(old) \ remove_failed)

(* A remote pass whose first deletion failed and whose second succeeded *)
C8_Witness ==
    /\ RunSucceeded
    /\ Len(to_delete) >= 2
    /\ to_delete[1] \in delete_failed
    /\ to_delete[2] \notin remote

(* C9: when a page request of the listing fails, on the first page or a    *)
(* later one, the pass issues no delete request and the run fails.         *)
C9_ListFailureNoDelete ==
    (entry = "main" /\ list_failed) =>
        /\ delete_reqs = <<>>
        /\ remote = remote0
        /\ RunFailed

(* A failure on a later page, the pages before it holding more objects     *)
(* than the keep-count                                                     *)
C9_Witness ==
    /\ entry = "main" /\ list_failed
    /\ Len(list_reqs) >= 2
    /\ Len(files) > env.REMOTE_RETENTION

(* C10: when the copy ends with an exit code other than 0, upload_to_b2    *)
(* raises, the archive is still on disk and nothing was pruned, locally or *)
(* remotely.                                                               *)
C10_UploadFailureKeepsArchive ==
    (entry = "upload_to_b2" /\ pc = "returned" /\ returncode # 0) =>
        /\ raised
        /\ local_path \in disk /\ disk = disk0
        /\ uploads = {}
        /\ remove_reqs = <<>> /\ delete_reqs = <<>>

(* A copy that ended with an exit code above 1 *)
C10_Witness ==
    /\ entry = "upload_to_b2" /\ pc = "returned"
    /\ returncode > 1
    /\ raised

(* C11: a pruning pass with keep-count N over M <= N items deletes         *)
(* nothing, and a second pass with the same N over what a first pass left  *)
(* (every deletion of which succeeded) deletes nothing, on either tier.    *)
C11_PruneNoOpAndIdempotent ==
    /\ (entry = "main" /\ Cardinality(remote0) <= env.REMOTE_RETENTION) =>
          (delete_reqs = <<>> /\ remote = remote0)
    /\ (entry = "prune_old_backups_local"
          /\ Cardinality(Glob(disk0, env.JOB_NAME)) <= retention_count) =>
          (remove_reqs = <<>> /\ disk = disk0)
    /\ calls >= 1 =>
          /\ delete_reqs = <<>> /\ remote = remote0
          /\ remove_reqs = <<>> /\ disk = disk0

(* A second remote pass that ended, over the objects a first pass kept *)
C11_Witness ==
    /\ RunSucceeded
    /\ calls >= 1
    /\ env.REMOTE_RETENTION >= 1
    /\ Cardinality(remote0) = env.REMOTE_RETENTION
    /\ files # <<>>

Resolving == entry \in {"main", "validate_b2_or_fail"}

(* The listing of b2_list_buckets holds a bucket with the requested name *)
BucketListed ==
    \E i \in 1..Len(list_buckets.buckets) :
        list_buckets.buckets[i].bucketName = BucketName

(* C12: b2_resolve_bucket_id returns the id of the scope, with no          *)
(* b2_list_buckets request, when the scope names the requested bucket and  *)
(* has an id; otherwise it requests the buckets and returns the id of the  *)
(* one with the requested name; when the bucket is neither in the scope    *)
(* nor in the listing it raises, and the run (or validate_b2_or_fail) ends *)
(* in failure with no archive, listing or deletion.                        *)
C12_BucketResolution ==
    /\ [](Resolving =>
            /\ bucket_id # "" => bucket_id = BucketIdOf(BucketName)
            /\ (auth \in {"scoped", "unscoped"} /\ ScopeHasBucket(allowed)) =>
                  /\ bucket_reqs = 0
                  /\ pc # "resolve" => bucket_id = allowed.bucketId
            /\ (~ScopeHasBucket(allowed) /\ bucket_id # "") => bucket_reqs = 1
            /\ failed_step = "resolve" =>
                  /\ ~ScopeHasBucket(allowed)
                  /\ list_buckets.status = "error" \/ ~BucketListed
                  /\ RunFailed \/ (entry # "main" /\ pc = "returned" /\ raised)
                  /\ disk = disk0 /\ uploads = {}
                  /\ list_reqs = <<>> /\ delete_reqs = <<>> /\ remote = remote0)
    /\ [][(Resolving /\ pc = "find") =>
            IF BucketListed
            THEN /\ bucket_id' = BucketIdOf(BucketName)
                 /\ pc' = AfterResolve
                 /\ failed_step' = "none"
            ELSE /\ failed_step' = "resolve"
                 /\ pc' \in {"exited", "returned"}]_vars

(* A run that failed with the scope and the listing naming another bucket *)
C12_Witness ==
    /\ RunFailed
    /\ failed_step = "resolve"
    /\ allowed.bucketName = OtherBucket
    /\ list_buckets.buckets = <<Bucket(OtherBucket)>>

RegularFiles == {e \in source : e.kind = "file"}

(* C13: create_backup, the archive once opened, returns normally whatever  *)
(* files fail to be read; the archive's entries are exactly the regular    *)
(* files under the source directory whose read did not fail, each under    *)
(* its path relative to the source directory.                              *)
C13_ArchiveHoldsReadableFiles ==
    (entry = "create_backup" /\ tar # "failed") =>
        /\ ~raised
        /\ add_failed \subseteq RegularFiles
        /\ pc = "returned" =>
              /\ archive = {e.rel : e \in RegularFiles \ add_failed}
              /\ add_failed = {} => archive = {e.rel : e \in RegularFiles}
              /\ backup_name \in disk

(* An archive made of a tree in which a file of the directory failed and   *)
(* another file was read                                                   *)
C13_Witness ==
    /\ entry = "create_backup" /\ pc = "returned" /\ tar = "closed"
    /\ FileEntry(2) \in add_failed
    /\ archive # {}

(* C14: with JOB_NAME or one of B2_BUCKET, REMOTE_PATH, B2_ACCOUNT_ID,     *)
(* B2_ACCOUNT_KEY missing, the process gets no further than the checks of  *)
(* the settings and exits with a non-zero code: no authorization or other  *)
(* request, no archive, no upload and no deletion has happened.            *)
C14_MissingSettingExitsFirst ==
    (entry = "main" /\ env.unset # {}) =>
        /\ pc \in {"import", "main", "exited"}
        /\ pc = "main" => "JOB_NAME" \notin env.unset
        /\ pc = "exited" => exit_code = 1
        /\ executed = <<>>
        /\ auth = "none" /\ bucket_reqs = 0
        /\ list_reqs = <<>> /\ delete_reqs = <<>> /\ remote = remote0
        /\ tar = "none" /\ archive = {} /\ uploads = {}
        /\ remove_reqs = <<>> /\ disk = disk0

(* A run that exited for a missing REMOTE_PATH, the bucket not empty *)
C14_Witness ==
    /\ RunFailed
    /\ env.unset = {"REMOTE_PATH"}
    /\ remote0 # {}

(* C15: with a keep-count N >= 1, whatever deletions fail, no pruner       *)
(* issues a delete for one of the N newest items of its tier; the remote   *)
(* pruner's delete requests are (fileName, fileId) pairs of the listing,   *)
(* at most one per object.                                                 *)
C15_RetainedNeverDeleted ==
    /\ (entry = "main" /\ env.REMOTE_RETENTION >= 1) =>
          \A i \in 1..Len(delete_reqs) :
              \A o \in NewestObjects(remote0, env.REMOTE_RETENTION) :
                  delete_reqs[i] # DeleteRequest(o)
    /\ entry = "main" =>
          /\ \A i \in 1..Len(delete_reqs) :
                \E o \in Range(files) : delete_reqs[i] = DeleteRequest(o)
          /\ \A i, j \in 1..Len(delete_reqs) :
                i # j => delete_reqs[i] # delete_reqs[j]
    /\ (entry = "prune_old_backups_local" /\ retention_count >= 1) =>
          \A i \in 1..Len(remove_reqs) :
              remove_reqs[i] \notin
                  NewestNames(Glob(disk0, env.JOB_NAME), retention_count)

(* A remote pass with N >= 1 in which a deletion failed and another        *)
(* request followed                                                        *)
C15_Witness ==
    /\ RunSucceeded
    /\ env.REMOTE_RETENTION >= 1
    /\ Len(delete_reqs) >= 2
    /\ to_delete[1] \in delete_failed

(* The pages a listing of n objects takes with pages of c objects *)
Pages(n, c) == Max(1, (n + c - 1) \div c)

(* C16: b2_list_files makes one request per pass of its loop, the first    *)
(* without a cursor and each later one with the cursor of the page before  *)
(* it, unchanged; it goes on exactly while the last response had a         *)
(* non-empty nextFileName; against the store, whose cursor advances, it    *)
(* ends, after as many requests as the listing has pages.                  *)
C16_ListingTerminates ==
    /\ [](entry = "main" =>
            /\ list_reqs # <<>> => list_reqs[1] = None
            /\ (pc = "list" /\ list_reqs # <<>>) => next_file_name # None
            /\ pc \in {"sort", "delete"} => next_file_name = None
            /\ Len(list_reqs) <= Pages(Cardinality(remote0), page_cap)
            /\ pc = "sort" =>
                  Len(list_reqs) = Pages(Cardinality(remote0), page_cap))
    /\ [][(entry = "main" /\ pc = "list") =>
            /\ list_reqs' = Append(list_reqs, next_file_name)
            /\ pc' = "list" => next_file_name' # None]_vars
    /\ (entry = "main" /\ pc = "list") ~> (pc # "list")

(* A listing of three pages that ended *)
C16_Witness ==
    /\ entry = "main" /\ pc = "sort"
    /\ Len(list_reqs) >= 3
    /\ list_reqs[3] # None

====
